---- MODULE Spec2Model ----
(***************************************************************************)
(* Serial data logger: SerialReader / _RawReader (reader thread), the      *)
(* queue between the reader and the GUI, SerialGui._pump (consumer tick),  *)
(* SerialGui._store_ts (time-series buffers) and SerialGui._refresh_ts_plot *)
(* (trailing 10 s window).                                                  *)
(*                                                                          *)
(* Text is a sequence of one-character strings.  Times are integers in      *)
(* milliseconds (the code's float seconds times 1000).                      *)
(***************************************************************************)
EXTENDS Integers, Sequences, FiniteSets, TLC

\* ------------------------------------------------------------------ bounds
\* The MAX parameter of _store_ts (gui.py:203, default 10000), scaled down.
MAX == 3
\* Most extra columns a frame of the store specifications carries.
MaxCols == 2
\* Most appends (_handle_obj calls) of the store specification.
MaxAppends == 5
\* Most appends (_handle_obj calls) of the window specification.
MaxWinAppends == 4
\* Most lines the device sends in the pipeline specification.
MaxLines == 2
\* Most tokens after "P," of a line of the parser specification.
MaxTokens == 4
\* Most commas at the end of a line of the parser specification.
MaxTrail == 2
\* time.time() returns k * 5 s for some k in 0..MaxTick (window specification).
MaxTick == 3

\* ------------------------------------------------------------- constants
\* np.nan (gui.py:208, 211): a value no float(tok) of the model returns.
NaN == -1
\* The trailing window of _refresh_ts_plot, 10.0 s (gui.py:219), in ms.
WindowMs == 10000
\* ------------------------------------------------------------- variables
VARIABLES
    wire,        \* device: bytes of the line it is sending, not yet on the link
    sent,        \* history: every byte that has arrived at the port
    n_lines,     \* history: number of lines the device has begun
    rx,          \* serial port: bytes received and not yet read (in_waiting)
    ser_open,    \* serial port: open (closed by closeEvent)
    last_tx,     \* SerialGui._last_tx: the text _tx wrote to the port last
    stop_flag,   \* SerialReader._stop (threading.Event)
    r_pc,        \* reader thread: where it is in _RawReader.run
    buf,         \* reader thread: buf (bytearray)
    r_txt,       \* reader thread: txt, the line being pushed
    r_parsed,    \* reader thread: parsed, what _parse returned for the last line
    r_exc,       \* reader thread: the kind of error its last failed read raised
    q,           \* SerialGui._q (queue.Queue)
    pushed,      \* history: every item put on the queue
    g_pc,        \* GUI thread: idle, inside _pump, or inside closeEvent's join
    closed,      \* GUI thread: closeEvent has run
    serial_in,   \* SerialGui._serial_in: the texts appended
    handled,     \* history: the frames _handle_obj was called with
    ts_time,     \* SerialGui._ts_time: list of timestamps
    ts_data,     \* SerialGui._ts_data: column index -> list of values
    ts_scale,    \* SerialGui._ts_scale: column index -> multiplier
    ts_list,     \* SerialGui._ts_list: check state of each list row
    ts_curves,   \* SerialGui._ts_curves: column index -> data of the curve
    ref_time,    \* history: timestamps of the last MAX appends
    ref_data,    \* history: per column, its value in each of the last MAX appends
    ref_cols,    \* history: number of extra columns of the newest frame stored
    recomputed,  \* history: the last operation was _refresh_ts_plot alone
    n_appends    \* history: number of _store_ts calls so far

storeVars == <<ts_time, ts_data, ts_scale, ts_list, ts_curves,
               ref_time, ref_data, ref_cols, recomputed, n_appends>>

devVars == <<wire, sent, n_lines>>

readerVars == <<r_pc, buf, r_txt, r_parsed, r_exc>>

guiVars == <<g_pc, closed, serial_in, handled>>

pipeVars == <<devVars, rx, ser_open, last_tx, stop_flag, readerVars, q, pushed,
              guiVars>>

vars == <<pipeVars, storeVars>>

\* ------------------------------------------------------------ text, float
Digits == {"0", "1", "2", "3", "4", "5", "6", "7", "8", "9"}

DigitVal(c) ==
    CASE c = "0" -> 0 [] c = "1" -> 1 [] c = "2" -> 2 [] c = "3" -> 3
      [] c = "4" -> 4 [] c = "5" -> 5 [] c = "6" -> 6 [] c = "7" -> 7
      [] c = "8" -> 8 [] c = "9" -> 9

\* str.strip(): leading and trailing whitespace removed.
IsSpace(c) == c \in {" ", "\t", "\r", "\n"}

RECURSIVE LStrip(_)
LStrip(s) ==
    IF s # <<>> /\ IsSpace(Head(s)) THEN LStrip(Tail(s)) ELSE s

RECURSIVE RStrip(_)
RStrip(s) ==
    IF s # <<>> /\ IsSpace(s[Len(s)]) THEN RStrip(SubSeq(s, 1, Len(s) - 1)) ELSE s

Strip(s) == LStrip(RStrip(s))

\* float(tok) succeeds: over the model's alphabet, an optional surrounding
\* whitespace and a non-empty run of decimal digits.
IsFloat(tok) ==
    LET s == Strip(tok)
    IN  s # <<>> /\ \A i \in 1..Len(s) : s[i] \in Digits

RECURSIVE DecimalVal(_)
DecimalVal(s) ==
    IF s = <<>> THEN 0
    ELSE 10 * DecimalVal(SubSeq(s, 1, Len(s) - 1)) + DigitVal(s[Len(s)])

\* float(tok) of a token for which IsFloat holds.
FloatOf(tok) == DecimalVal(Strip(tok))

\* ------------------------------------------------------------ PointFrame
\* data.PointFrame; ts_ms is <<>> for None and <<v>> for the integer v.
PointFrame(ts, coords, extra) == [ts_ms |-> ts, coords |-> coords, extra |-> extra]

\* ---------------------------------------------------------------- parser
\* What _parse returns: a str, or a PointFrame.
Str(text) == [tag |-> "str", text |-> text]

Frame(coords, extra) ==
    [tag |-> "PointFrame", frame |-> PointFrame(<<>>, coords, extra)]

\* The local variable parsed of run() before its first assignment.
NotParsed == [tag |-> "none"]

\* txt.startswith("P,")
StartsWithMarkerMutP(txt) == Len(txt) >= 1 /\ txt[1] = "P"

StartsWithMarker(txt) == Len(txt) >= 2 /\ txt[1] = "P" /\ txt[2] = ","

\* txt.rstrip(","): every trailing comma removed.
RECURSIVE RStripComma(_)
RStripComma(s) ==
    IF s # <<>> /\ s[Len(s)] = ","
    THEN RStripComma(SubSeq(s, 1, Len(s) - 1))
    ELSE s

\* s.split(","): the pieces between commas, empty pieces kept.
RECURSIVE Split(_)
Split(s) ==
    IF \E i \in 1..Len(s) : s[i] = ","
    THEN LET i == CHOOSE k \in 1..Len(s) :
                      s[k] = "," /\ \A j \in 1..(k - 1) : s[j] # ","
         IN  <<SubSeq(s, 1, i - 1)>> \o Split(SubSeq(s, i + 1, Len(s)))
    ELSE <<s>>

\* txt.rstrip(",").split(",")[1:]
Tokens(txt) == Tail(Split(RStripComma(txt)))

HasD(tokens) == \E i \in 1..Len(tokens) : tokens[i] = <<"D">>

\* tokens.index("D"), 1-based
DIdx(tokens) ==
    CHOOSE k \in 1..Len(tokens) :
        tokens[k] = <<"D">> /\ \A j \in 1..(k - 1) : tokens[j] # <<"D">>

CoordTokens(tokens) ==
    IF HasD(tokens) THEN SubSeq(tokens, 1, DIdx(tokens) - 1) ELSE tokens

ExtraTokens(tokens) ==
    IF HasD(tokens) THEN SubSeq(tokens, DIdx(tokens) + 1, Len(tokens)) ELSE <<>>

\* f"# non-float '{tok}' in: {txt}"
NonFloatMsg(tok, txt) ==
    <<"#", " ", "n", "o", "n", "-", "f", "l", "o", "a", "t", " ", "'">> \o tok
    \o <<"'", " ", "i", "n", ":", " ">> \o txt

\* f"# no coordinate data: {txt}"
NoCoordMsg(txt) ==
    <<"#", " ", "n", "o", " ", "c", "o", "o", "r", "d", "i", "n", "a", "t", "e",
      " ", "d", "a", "t", "a", ":", " ">> \o txt

\* [(floats[i], floats[i+1]) for i in range(0, len(floats) - len(floats) % 2, 2)]
PairsMutDropsFirst(floats) ==
    [k \in 1..(Len(floats) \div 2) |->
        <<floats[2 * k - 1 + (Len(floats) % 2)], floats[2 * k + (Len(floats) % 2)]>>]

Pairs(floats) ==
    [k \in 1..(Len(floats) \div 2) |-> <<floats[2 * k - 1], floats[2 * k]>>]

\* SerialReader._parse
Parse(txt) ==
    IF ~StartsWithMarker(txt) THEN Str(txt)
    ELSE LET tokens == Tokens(txt)
             coord  == CoordTokens(tokens)
             extra  == ExtraTokens(tokens)
             bad    == {i \in 1..Len(coord) : ~IsFloat(coord[i])}
         IN  IF bad # {}
             THEN LET i == CHOOSE k \in bad : \A j \in bad : k <= j
                  IN  Str(NonFloatMsg(coord[i], txt))
             ELSE IF Len(coord) < 2
             THEN Str(NoCoordMsg(txt))
             ELSE Frame(Pairs([i \in 1..Len(coord) |-> FloatOf(coord[i])]), extra)

\* ------------------------------------------------------ time-series store
\* lst[-n:] for n > 0.
LastN(lst, n) ==
    IF Len(lst) <= n THEN lst ELSE SubSeq(lst, Len(lst) - n + 1, Len(lst))

\* try: val=float(tok) except ValueError: val=np.nan
TokVal(tok) == IF IsFloat(tok) THEN FloatOf(tok) ELSE NaN

\* t = f.ts_ms/1000 if f.ts_ms not in (None, 0) else time.time(); the model
\* keeps t in ms, so ts_ms/1000 seconds is ts_ms itself.
FrameTime(f, now) ==
    IF f.ts_ms # <<>> /\ f.ts_ms[1] # 0
    THEN f.ts_ms[1]
    ELSE now

\* self._ts_time after self._ts_time.append(t)
TimeAppended(time, f, now) == Append(time, FrameTime(f, now))

\* self._ts_data after the loop over enumerate(f.extra):
\* setdefault(col, []).append(val)
DataAppendedMutOnlyFrameCols(data, f) ==
    [c \in 0..(Len(f.extra) - 1) |->
        Append(IF c \in DOMAIN data THEN data[c] ELSE <<>>, TokVal(f.extra[c + 1]))]

DataAppended(data, f) ==
    LET cols == 0..(Len(f.extra) - 1)
    IN  [c \in (DOMAIN data) \cup cols |->
            IF c \in cols
            THEN Append(IF c \in DOMAIN data THEN data[c] ELSE <<>>,
                        TokVal(f.extra[c + 1]))
            ELSE data[c]]

\* self._ts_data after the loop "if len(lst)<len(self._ts_time): lst.append(nan)":
\* at most one NaN per list and call.
DataPadded(data, time) ==
    [c \in DOMAIN data |->
        IF Len(data[c]) < Len(time) THEN Append(data[c], NaN) ELSE data[c]]

\* SerialGui._store_ts: the lists after the call.
StoreTime(time, f, now) ==
    LET time1 == TimeAppended(time, f, now)
    IN  IF Len(time1) > MAX THEN LastN(time1, MAX) ELSE time1

StoreData(data, time, f, now) ==
    LET time1 == TimeAppended(time, f, now)
        data2 == DataPadded(DataAppended(data, f), time1)
    IN  IF Len(time1) > MAX
        THEN [c \in DOMAIN data2 |-> LastN(data2[c], MAX)]
        ELSE data2

\* ------------------------------------------------------------ window view
\* bisect.bisect_left(a, x), 0-based result.
RECURSIVE BisectLoop(_, _, _, _)
BisectLoop(a, x, lo, hi) ==
    IF lo < hi
    THEN LET mid == (lo + hi) \div 2
         IN  IF a[mid + 1] < x
             THEN BisectLoop(a, x, mid + 1, hi)
             ELSE BisectLoop(a, x, lo, mid)
    ELSE lo

RECURSIVE BisectRightLoop(_, _, _, _)
BisectRightLoop(a, x, lo, hi) ==
    IF lo < hi
    THEN LET mid == (lo + hi) \div 2
         IN  IF a[mid + 1] <= x
             THEN BisectRightLoop(a, x, mid + 1, hi)
             ELSE BisectRightLoop(a, x, lo, mid)
    ELSE lo

BisectMutRight(a, x) == BisectRightLoop(a, x, 0, Len(a))

BisectLeft(a, x) == BisectLoop(a, x, 0, Len(a))

\* t_start = t_end - 10.0 and idx = bisect_left(self._ts_time, t_start)
WindowStart(time) == BisectLeft(time, time[Len(time)] - WindowMs)

\* lst[idx:]
From(lst, idx) == SubSeq(lst, idx + 1, Len(lst))

\* np.asarray(lst) * scale: NaN stays NaN.
Scaled(lst, scale) ==
    [i \in 1..Len(lst) |-> IF lst[i] = NaN THEN NaN ELSE lst[i] * scale]

ScaleOf(scale, col) == IF col \in DOMAIN scale THEN scale[col] ELSE 1

\* the set "checked" of _refresh_ts_plot
Checked(list, data) ==
    {i \in 0..(Len(list) - 1) : list[i + 1] /\ i \in DOMAIN data}

\* SerialGui._refresh_ts_plot: self._ts_curves after the call.
RefreshedCurvesMutAccumulates(curves, time, data, scale, list) ==
    IF time = <<>> THEN curves
    ELSE LET idx == WindowStart(time)
         IN  [col \in Checked(list, data) |->
                 [x |-> (IF col \in DOMAIN curves THEN curves[col].x ELSE <<>>)
                        \o From(time, idx),
                  y |-> (IF col \in DOMAIN curves THEN curves[col].y ELSE <<>>)
                        \o Scaled(From(data[col], idx), ScaleOf(scale, col))]]

RefreshedCurves(curves, time, data, scale, list) ==
    IF time = <<>> THEN curves
    ELSE LET idx == WindowStart(time)
         IN  [col \in Checked(list, data) |->
                 [x |-> From(time, idx),
                  y |-> Scaled(From(data[col], idx), ScaleOf(scale, col))]]

\* SerialGui._update_tables: self._ts_list after the call (a new unchecked
\* row for every column the table did not have).
ListGrown(list, f) ==
    IF Len(list) < Len(f.extra)
    THEN list \o [i \in 1..(Len(f.extra) - Len(list)) |-> FALSE]
    ELSE list

\* ------------------------------------------------- history (not program state)
\* What the last MAX appends were: the timestamps, and per column the value
\* the frame of each of them carried there (NaN when it carried none).
RefTime(time, f, now) == LastN(Append(time, FrameTime(f, now)), MAX)

RefData(data, time, f) ==
    LET cols == 0..(Len(f.extra) - 1)
    IN  [c \in (DOMAIN data) \cup cols |->
            LastN(Append(IF c \in DOMAIN data THEN data[c]
                         ELSE [i \in 1..Len(time) |-> NaN],
                         IF c \in cols THEN TokVal(f.extra[c + 1]) ELSE NaN),
                  MAX)]

\* ---------------------------------------------------------------- actions
\* SerialGui._handle_obj(f) with time.time() returning now:
\* _update_tables, _store_ts, _refresh_ts_plot (drawing and CSV logging
\* write no state of the model).
HandleObj(f, now) ==
    /\ ts_list' = ListGrown(ts_list, f)
    /\ ts_time' = StoreTime(ts_time, f, now)
    /\ ts_data' = StoreData(ts_data, ts_time, f, now)
    /\ ts_curves' = RefreshedCurves(ts_curves, ts_time', ts_data', ts_scale, ts_list')
    /\ ref_time' = RefTime(ref_time, f, now)
    /\ ref_data' = RefData(ref_data, ref_time, f)
    /\ ref_cols' = Len(f.extra)
    /\ recomputed' = FALSE
    /\ n_appends' = n_appends + 1
    /\ UNCHANGED ts_scale

\* The user ticks or unticks row i of the list: itemChanged -> _refresh_ts_plot.
ToggleCheck(i) ==
    /\ i \in 1..Len(ts_list)
    /\ ts_list' = [ts_list EXCEPT ![i] = ~ts_list[i]]
    /\ ts_curves' = RefreshedCurves(ts_curves, ts_time, ts_data, ts_scale, ts_list')
    /\ recomputed' = FALSE
    /\ UNCHANGED <<ts_time, ts_data, ts_scale, ref_time, ref_data, ref_cols,
                   n_appends>>

\* SerialGui._edit_scale on row i, the dialog accepted with value val.
EditScale(i, val) ==
    /\ i \in 1..Len(ts_list)
    /\ ScaleOf(ts_scale, i - 1) # val
    /\ ts_scale' = [c \in (DOMAIN ts_scale) \cup {i - 1} |->
                       IF c = i - 1 THEN val ELSE ts_scale[c]]
    /\ ts_curves' = RefreshedCurves(ts_curves, ts_time, ts_data, ts_scale', ts_list)
    /\ recomputed' = FALSE
    /\ UNCHANGED <<ts_time, ts_data, ts_list, ref_time, ref_data, ref_cols,
                   n_appends>>

\* _refresh_ts_plot called again with nothing changed: itemChanged of a row
\* of the list whose check state stays as it is (its text set by a rename,
\* its tooltip by _edit_scale).
Refresh ==
    /\ ts_list # <<>>
    /\ ts_curves' = RefreshedCurves(ts_curves, ts_time, ts_data, ts_scale, ts_list)
    /\ recomputed' = TRUE
    /\ UNCHANGED <<ts_time, ts_data, ts_scale, ts_list, ref_time, ref_data,
                   ref_cols, n_appends>>

StoreInit ==
    /\ ts_time = <<>>
    /\ ts_data = <<>>
    /\ ts_scale = <<>>
    /\ ts_list = <<>>
    /\ ts_curves = <<>>
    /\ ref_time = <<>>
    /\ ref_data = <<>>
    /\ ref_cols = 0
    /\ recomputed = FALSE
    /\ n_appends = 0

\* --------------------------------------------------------------- pipeline
\* The byte b"\n", the byte 0xFF (no valid UTF-8) and U+FFFD, which
\* decode(errors="replace") puts in its place.
NL == "\n"

BadByte == "0xFF"

Replacement == "U+FFFD"

\* line.decode("utf-8", "replace")
Decode(bytes) ==
    [i \in 1..Len(bytes) |-> IF bytes[i] = BadByte THEN Replacement ELSE bytes[i]]

\* b"\n" in buf
HasNL(bytes) == \E i \in 1..Len(bytes) : bytes[i] = NL

\* index of the first b"\n" of buf, 1-based
FirstNL(bytes) ==
    CHOOSE k \in 1..Len(bytes) :
        bytes[k] = NL /\ \A j \in 1..(k - 1) : bytes[j] # NL

\* line, _, buf = buf.partition(b"\n")
PartLine(bytes) == SubSeq(bytes, 1, FirstNL(bytes) - 1)

PartRestMutDropsTail(bytes) == <<>>

PartRest(bytes) == SubSeq(bytes, FirstNL(bytes) + 1, Len(bytes))

\* txt = line.decode("utf-8", "replace").strip()
LineText(bytes) == Strip(Decode(PartLine(bytes)))

\* The items _RawReader.run puts on the queue.
RawItem(text) == [typ |-> "raw", text |-> text]

ObjItem(f) == [typ |-> "obj", frame |-> f]

\* The lines the device sends (each followed by a newline).
DeviceLines ==
    { <<"P", ",", "1", ",", "2">>,
      <<"P", ",", "2", ",", "1">>,
      <<"P", ",", "x">>,
      <<"P", ",", "1">>,
      <<" ", BadByte>> }

\* ",".join(tokens)
RECURSIVE Join(_)
Join(tokens) ==
    IF tokens = <<>> THEN <<>>
    ELSE IF Len(tokens) = 1 THEN tokens[1]
    ELSE tokens[1] \o <<",">> \o Join(Tail(tokens))

\* The lines of the parser specification: "P," followed by up to MaxTokens
\* tokens and up to MaxTrail commas, and lines without the marker.
LineTokens == { <<"1">>, <<"2">>, <<"x">>, <<"D">> }

TokenSeqs(n) == UNION { [1..k -> LineTokens] : k \in 0..n }

Commas(n) == [i \in 1..n |-> ","]

MarkerTexts ==
    { <<"P", ",">> \o Join(ts) \o Commas(k) :
          ts \in TokenSeqs(MaxTokens), k \in 0..MaxTrail }

PlainTexts ==
    { Join(ts) \o Commas(k) : ts \in TokenSeqs(2), k \in 0..MaxTrail }
    \cup { <<"P">> }

ParseTexts == MarkerTexts \cup PlainTexts

\* self._parse(txt) on the text of a line.  (Parse, tabulated over the texts
\* of the specifications so that it is evaluated once per text.)
DeviceTexts == { Strip(Decode(l)) : l \in DeviceLines }

ParseTable == [t \in DeviceTexts \cup ParseTexts |-> Parse(t)]

ParseLine(text) == ParseTable[text]

\* The texts the user sends.
TxTexts == { <<"g">> }

\* time.time() at the n-th call of _handle_obj, in ms, where the clock
\* is taken to advance 6 s between calls.
Clock(n) == n * 6000

\* The device begins a line.
DevLine(l) ==
    /\ wire = <<>>
    /\ n_lines < MaxLines
    /\ wire' = Append(l, NL)
    /\ n_lines' = n_lines + 1
    /\ UNCHANGED <<sent, rx, ser_open, last_tx, stop_flag, readerVars, q, pushed,
                   guiVars, storeVars>>

\* The device sends one byte of the line; it arrives at the port if the
\* port is open.
DevByte ==
    /\ wire # <<>>
    /\ wire' = Tail(wire)
    /\ sent' = IF ser_open THEN Append(sent, Head(wire)) ELSE sent
    /\ rx' = IF ser_open THEN Append(rx, Head(wire)) ELSE rx
    /\ UNCHANGED <<n_lines, ser_open, last_tx, stop_flag, readerVars, q, pushed,
                   guiVars, storeVars>>

\* while not self._stop.is_set(): where the thread goes from the test.
LoopMutIgnoresStop(flag) == "read"

AfterLoopTest(flag) == IF flag THEN "done" ELSE "read"

ReaderLoop ==
    /\ r_pc = "loop"
    /\ r_pc' = AfterLoopTest(stop_flag)
    /\ UNCHANGED <<devVars, rx, ser_open, last_tx, stop_flag, buf, r_txt, r_parsed,
                   r_exc, q, pushed, guiVars, storeVars>>

\* buf.extend(self._ser.read(self._ser.in_waiting or 1)): the bytes waiting
\* at the port, or none when none came within the timeout (0.1 s).  (Bytes
\* that come between in_waiting and read() wait for the next read, as bytes
\* that come after it do.)
ReaderRead ==
    /\ r_pc = "read"
    /\ ser_open
    /\ buf' = buf \o rx
    /\ rx' = <<>>
    /\ r_pc' = "split"
    /\ UNCHANGED <<devVars, ser_open, last_tx, stop_flag, r_txt, r_parsed, r_exc,
                   q, pushed, guiVars, storeVars>>

\* The failures of a read: transient (the port reports readiness and returns
\* no data, a brief hiccup) or fatal (the port was closed, the device is gone).
ReadErrors == {"transient", "fatal"}

\* Where the thread goes when in_waiting or read() raises: run() has no
\* try/except, so the exception of either kind leaves run() and the thread ends.
AfterRaiseMutSwallows(kind) == "loop"

AfterRaise(kind) == "crashed"

\* in_waiting or read() raises an error of the kind given (a closed port
\* raises the fatal one only).
ReaderRaise(kind) ==
    /\ r_pc = "read"
    /\ kind = "transient" => ser_open
    /\ r_pc' = AfterRaise(kind)
    /\ r_exc' = kind
    /\ UNCHANGED <<devVars, rx, ser_open, last_tx, stop_flag, buf, r_txt,
                   r_parsed, q, pushed, guiVars, storeVars>>

\* while b"\n" in buf: line, _, buf = buf.partition(b"\n"); txt = ...
ReaderSplit ==
    /\ r_pc = "split"
    /\ IF HasNL(buf)
       THEN /\ r_txt' = LineText(buf)
            /\ buf' = PartRest(buf)
            /\ r_pc' = "put_raw"
       ELSE /\ r_pc' = "loop"
            /\ UNCHANGED <<buf, r_txt>>
    /\ UNCHANGED <<devVars, rx, ser_open, last_tx, stop_flag, r_parsed, r_exc, q,
                   pushed, guiVars, storeVars>>

\* What _RawReader.run does after self._q.put(('raw', txt)):
\* parsed = self._parse(txt); if not isinstance(parsed, str): a second put.
AfterRawMutNoObj(text) == "split"

AfterRaw(text) == IF ParseLine(text).tag = "str" THEN "split" ELSE "put_obj"

\* self._q.put(('raw', txt)); parsed = self._parse(txt)
ReaderPutRaw ==
    /\ r_pc = "put_raw"
    /\ q' = Append(q, RawItem(r_txt))
    /\ pushed' = Append(pushed, RawItem(r_txt))
    /\ r_parsed' = ParseLine(r_txt)
    /\ r_pc' = AfterRaw(r_txt)
    /\ UNCHANGED <<devVars, rx, ser_open, last_tx, stop_flag, buf, r_txt, r_exc,
                   guiVars, storeVars>>

\* self._q.put(('obj', parsed))
ReaderPutObj ==
    /\ r_pc = "put_obj"
    /\ q' = Append(q, ObjItem(r_parsed.frame))
    /\ pushed' = Append(pushed, ObjItem(r_parsed.frame))
    /\ r_pc' = "split"
    /\ UNCHANGED <<devVars, rx, ser_open, last_tx, stop_flag, buf, r_txt, r_parsed,
                   r_exc, guiVars, storeVars>>

\* self._q.get_nowait(): the item taken, and the queue left.
QGetMutNewest(queue) == queue[Len(queue)]

QGet(queue) == Head(queue)

QRestMutDropsTwo(queue) == IF Len(queue) > 1 THEN Tail(Tail(queue)) ELSE Tail(queue)

QRest(queue) == Tail(queue)

\* SerialGui._pump, one turn of its loop on a 'raw' item (the timer's tick
\* enters the loop; the GUI thread does nothing else until it leaves it).
PumpRaw ==
    /\ g_pc \in {"idle", "pump"}
    /\ q # <<>>
    /\ QGet(q).typ = "raw"
    /\ q' = QRest(q)
    /\ serial_in' = Append(serial_in, QGet(q).text)
    /\ g_pc' = "pump"
    /\ UNCHANGED <<devVars, rx, ser_open, last_tx, stop_flag, readerVars, pushed,
                   closed, handled, storeVars>>

\* SerialGui._pump, one turn of its loop on an 'obj' item: _handle_obj.
PumpObj ==
    /\ g_pc \in {"idle", "pump"}
    /\ q # <<>>
    /\ QGet(q).typ = "obj"
    /\ q' = QRest(q)
    /\ handled' = Append(handled, QGet(q).frame)
    /\ HandleObj(QGet(q).frame, Clock(n_appends))
    /\ g_pc' = "pump"
    /\ UNCHANGED <<devVars, rx, ser_open, last_tx, stop_flag, readerVars, pushed,
                   closed, serial_in>>

\* self._q.get_nowait() raises queue.Empty: at once, when the queue is empty.
GetMutBlocks(queue) == FALSE

GetNowaitRaises(queue) == queue = <<>>

\* SerialGui._pump: get_nowait raises queue.Empty, _pump returns.
PumpEmpty ==
    /\ g_pc = "pump"
    /\ GetNowaitRaises(q)
    /\ g_pc' = "idle"
    /\ UNCHANGED <<devVars, rx, ser_open, last_tx, stop_flag, readerVars, q, pushed,
                   closed, serial_in, handled, storeVars>>

\* SerialGui._tx with the text s in the entry: self._ser.write((s+'\n').encode())
\* and self._last_tx.setText(s).
Tx(s) ==
    /\ g_pc = "idle"
    /\ ~closed
    /\ last_tx' = s
    /\ UNCHANGED <<devVars, rx, ser_open, stop_flag, readerVars, q, pushed,
                   guiVars, storeVars>>

\* closeEvent closing the port at once, with no stop() and no join.
CloseMutNoStop ==
    /\ g_pc = "idle"
    /\ ~closed
    /\ closed' = TRUE
    /\ ser_open' = FALSE
    /\ UNCHANGED <<devVars, rx, last_tx, stop_flag, readerVars, q, pushed, g_pc,
                   serial_in, handled, storeVars>>

\* SerialGui.closeEvent: self._reader.stop(), then join(timeout=1) begins.
CloseStop ==
    /\ g_pc = "idle"
    /\ ~closed
    /\ stop_flag' = TRUE
    /\ closed' = TRUE
    /\ g_pc' = "join"
    /\ UNCHANGED <<devVars, rx, ser_open, last_tx, readerVars, q, pushed,
                   serial_in, handled, storeVars>>

ReaderStopped == r_pc \in {"done", "crashed"}

\* join(timeout=1) returns, the thread having ended; then self._ser.close().
CloseJoined ==
    /\ g_pc = "join"
    /\ ReaderStopped
    /\ ser_open' = FALSE
    /\ g_pc' = "idle"
    /\ UNCHANGED <<devVars, rx, last_tx, stop_flag, readerVars, q, pushed, closed,
                   serial_in, handled, storeVars>>

\* join(timeout=1) raises, the thread having ended: up to CPython 3.12
\* Thread.join calls self._stop(), which serial_reader.py:12 has replaced by
\* the Event ("'Event' object is not callable"); closeEvent ends there and
\* the port stays open.
CloseJoinRaises ==
    /\ g_pc = "join"
    /\ ReaderStopped
    /\ g_pc' = "idle"
    /\ UNCHANGED <<devVars, rx, ser_open, last_tx, stop_flag, readerVars, q,
                   pushed, closed, serial_in, handled, storeVars>>

\* join(timeout=1) returns after its second, the thread still running; then
\* self._ser.close().
CloseTimedOut ==
    /\ g_pc = "join"
    /\ ~ReaderStopped
    /\ ser_open' = FALSE
    /\ g_pc' = "idle"
    /\ UNCHANGED <<devVars, rx, last_tx, stop_flag, readerVars, q, pushed, closed,
                   serial_in, handled, storeVars>>

PipeInit ==
    /\ wire = <<>>
    /\ sent = <<>>
    /\ n_lines = 0
    /\ rx = <<>>
    /\ ser_open = TRUE
    /\ last_tx = <<>>
    /\ stop_flag = FALSE
    /\ r_pc = "loop"
    /\ buf = <<>>
    /\ r_txt = <<>>
    /\ r_parsed = NotParsed
    /\ r_exc = "none"
    /\ q = <<>>
    /\ pushed = <<>>
    /\ g_pc = "idle"
    /\ closed = FALSE
    /\ serial_in = <<>>
    /\ handled = <<>>

\* ---------------------------------------------------------- specifications
Init == PipeInit /\ StoreInit

Device == (\E l \in DeviceLines : DevLine(l)) \/ DevByte

Reader ==
    \/ ReaderLoop
    \/ ReaderRead
    \/ (\E kind \in ReadErrors : ReaderRaise(kind))
    \/ ReaderSplit
    \/ ReaderPutRaw
    \/ ReaderPutObj

Pump == PumpRaw \/ PumpObj \/ PumpEmpty

Gui ==
    \/ Pump
    \/ (\E s \in TxTexts : Tx(s))
    \/ CloseStop
    \/ CloseJoined
    \/ CloseJoinRaises
    \/ CloseTimedOut

Next == Device \/ Reader \/ Gui

Spec == Init /\ [][Next]_vars

\* The reader thread is scheduled and its reads return (timeout=0.1,
\* gui.py:54); the timer ticks every 50 ms (gui.py:132); join returns within
\* its second (gui.py:302).
CloseJoin == CloseJoined \/ CloseJoinRaises \/ CloseTimedOut

\* The run the liveness claims speak of: the device sends well-formed
\* structured lines only and the user sends nothing.
FrameLines == { l \in DeviceLines : Parse(Strip(Decode(l))).tag = "PointFrame" }

NextLive ==
    \/ (\E l \in FrameLines : DevLine(l))
    \/ DevByte
    \/ Reader
    \/ Pump
    \/ CloseStop
    \/ CloseJoin

SpecLive ==
    /\ Init
    /\ [][NextLive]_vars
    /\ WF_vars(Reader)
    /\ WF_vars(Pump)
    /\ WF_vars(CloseJoin)

\* ------------------------------------------- store and window specifications
\* The tokens a device puts after "D,".
DeviceExtraTokens == { <<"7">>, <<"x">> }

ExtraSeqs(n) == UNION { [1..k -> DeviceExtraTokens] : k \in 0..n }

\* The line "P,1,2" followed, when there are extra tokens, by ",D," and them.
LineWith(extra) ==
    <<"P", ",", "1", ",", "2">>
    \o (IF extra = <<>> THEN <<>> ELSE <<",", "D", ",">> \o Join(extra))

\* The frames the parser makes of those lines.
StoreFrames == { Parse(LineWith(e)).frame : e \in ExtraSeqs(MaxCols) }

WindowFrames == { Parse(LineWith(e)).frame : e \in ExtraSeqs(1) }

ClockValues == { k * 5000 : k \in 0..MaxTick }

ScaleValues == {1, 2}

\* _handle_obj on a frame, the clock advancing between calls.
StoreAppend(f) ==
    /\ n_appends < MaxAppends
    /\ HandleObj(f, Clock(n_appends))
    /\ UNCHANGED pipeVars

\* _handle_obj on a frame, the clock returning any value.
WindowAppend(f, now) ==
    /\ n_appends < MaxWinAppends
    /\ HandleObj(f, now)
    /\ UNCHANGED pipeVars

WindowToggle(i) == ToggleCheck(i) /\ UNCHANGED pipeVars

WindowScale(i, val) == EditScale(i, val) /\ UNCHANGED pipeVars

WindowRefresh == Refresh /\ UNCHANGED pipeVars

NextStore == \E f \in StoreFrames : StoreAppend(f)

SpecStore == Init /\ [][NextStore]_vars

NextWindow ==
    \/ \E f \in WindowFrames, now \in ClockValues : WindowAppend(f, now)
    \/ \E i \in 1..MaxCols : WindowToggle(i)
    \/ \E i \in 1..MaxCols, val \in ScaleValues : WindowScale(i, val)
    \/ WindowRefresh

SpecWindow == Init /\ [][NextWindow]_vars

\* ------------------------------------------------------ parser specification
\* The reader has split one line off its accumulator, with the text r_txt;
\* it pushes the line and what _parse makes of it, and the consumer drains.
InitParse ==
    /\ r_txt \in ParseTexts
    /\ sent = Append(r_txt, NL)
    /\ n_lines = 1
    /\ wire = <<>>
    /\ rx = <<>>
    /\ ser_open = TRUE
    /\ last_tx = <<>>
    /\ stop_flag = FALSE
    /\ r_pc = "put_raw"
    /\ buf = <<>>
    /\ r_parsed = NotParsed
    /\ r_exc = "none"
    /\ q = <<>>
    /\ pushed = <<>>
    /\ g_pc = "idle"
    /\ closed = FALSE
    /\ serial_in = <<>>
    /\ handled = <<>>
    /\ StoreInit

NextParse == ReaderPutRaw \/ ReaderPutObj \/ Pump

SpecParse == InitParse /\ [][NextParse]_vars

\* ------------------------------------------------- what the claims speak of
\* The texts of the stream's newline-terminated lines, in stream order.
RECURSIVE StreamTexts(_)
StreamTexts(bytes) ==
    IF HasNL(bytes)
    THEN <<LineText(bytes)>> \o StreamTexts(PartRest(bytes))
    ELSE <<>>

CountNL(bytes) == Cardinality({i \in 1..Len(bytes) : bytes[i] = NL})

\* The lines the reader has taken out of its accumulator so far.
LinesTaken == CountNL(sent) - CountNL(rx) - CountNL(buf)

TakenTexts == SubSeq(StreamTexts(sent), 1, LinesTaken)

\* The reader is not between the two puts of one line.
BetweenLines == r_pc \notin {"put_raw", "put_obj"}

IsObj(item) == item.typ = "obj"

IsRaw(item) == item.typ = "raw"

FramesOf(items) ==
    LET objs == SelectSeq(items, IsObj)
    IN  [i \in 1..Len(objs) |-> objs[i].frame]

RawTextsOf(items) ==
    LET raws == SelectSeq(items, IsRaw)
    IN  [i \in 1..Len(raws) |-> raws[i].text]

\* The frames the parser makes of a sequence of texts, in order.
RECURSIVE ParsedFrames(_)
ParsedFrames(texts) ==
    IF texts = <<>> THEN <<>>
    ELSE (IF ParseLine(texts[1]).tag = "PointFrame"
          THEN <<ParseLine(texts[1]).frame>> ELSE <<>>)
         \o ParsedFrames(Tail(texts))

IsPrefix(a, b) == Len(a) <= Len(b) /\ \A i \in 1..Len(a) : a[i] = b[i]

\* A line that starts with "P," and fails parsing.
FailsParsing(text) == StartsWithMarker(text) /\ ParseLine(text).tag = "str"

\* Everything that arrived has been read, split, pushed and drained.
Drained ==
    /\ rx = <<>>
    /\ ~HasNL(buf)
    /\ BetweenLines
    /\ q = <<>>

\* C2: once the reader has left its loop after stop(), having pushed K
\* frames, the consumer eventually has handled exactly those K frames, each
\* once and in order; it never has handled a frame that was not pushed or
\* one frame twice.
C2_AllFramesHandledOnce ==
    /\ (r_pc = "done") ~> (handled = FramesOf(pushed))
    /\ [](IsPrefix(handled, FramesOf(pushed)))

\* C2 witness: the reader has stopped after pushing two frames and the
\* consumer has handled both.
C2_Witness ==
    /\ r_pc = "done"
    /\ stop_flag
    /\ Len(FramesOf(pushed)) = 2
    /\ handled = FramesOf(pushed)

\* C3: in every interleaving the frames handled are, in order and one for
\* one, the frames of the lines of the byte stream.
C3_FramesInStreamOrder ==
    IsPrefix(handled, ParsedFrames(StreamTexts(sent)))

\* C3 witness: two different frames were handled, the second queued while
\* the consumer was inside a tick.
C3_Witness ==
    /\ Len(handled) = 2
    /\ handled[1] # handled[2]
    /\ g_pc = "pump"

\* C5: for every line that starts with "P," and fails parsing, the
\* consumer receives the parser's '#' diagnostic for it on the raw-text
\* channel (once everything that arrived is drained).
C5_DiagnosticDelivered ==
    Drained =>
        \A i \in 1..Len(TakenTexts) :
            FailsParsing(TakenTexts[i]) =>
                \E j \in 1..Len(serial_in) : serial_in[j] = ParseLine(TakenTexts[i]).text

RECURSIVE ItemsFor(_)
ItemsFor(texts) ==
    IF texts = <<>> THEN <<>>
    ELSE <<RawItem(texts[1])>>
         \o (IF ParseLine(texts[1]).tag = "PointFrame"
             THEN <<ObjItem(ParseLine(texts[1]).frame)>> ELSE <<>>)
         \o ItemsFor(Tail(texts))

C7_StopReachesStopped ==
    /\ stop_flag ~> ReaderStopped
    /\ [][(r_pc = "loop" /\ stop_flag /\ r_pc' # r_pc) => r_pc' = "done"]_vars
    /\ [][ReaderStopped => r_pc' = r_pc]_vars

\* C7 witness: the reader saw the flag and left its loop.
C7_Witness == stop_flag /\ r_pc = "done"

\* C8 (as claimed): while the reader has not stopped, the consumer context
\* neither writes to the port nor closes it.
C8_NoForeignPortUse ==
    [][~ReaderStopped => (last_tx' = last_tx /\ ser_open' = ser_open)]_vars

\* C8 (amended): while the reader has not stopped, only the reader reads
\* from the port, and the consumer closes it only in closeEvent, after
\* stop() has set the flag and join(timeout=1) has begun; it does write to it.
C8_OnlyReaderReadsCloseAfterStop ==
    /\ [][rx' # rx /\ Len(rx') <= Len(rx) => r_pc = "read" /\ r_pc' = "split"]_vars
    /\ [][(~ReaderStopped /\ ser_open' # ser_open) =>
            (stop_flag /\ g_pc = "join" /\ ~ser_open')]_vars

\* C8 witness: the reader still running, a text written by _tx and the
\* port closed by closeEvent.
C8_Witness ==
    /\ ~ReaderStopped
    /\ last_tx # <<>>
    /\ ~ser_open

\* The reader's read has ended in an error of the kind given.
ReadFails(kind) == r_pc = "read" /\ r_pc' \notin {"read", "split"} /\ r_exc' = kind

\* C11: when a read fails transiently the reader stays Running, keeps the
\* bytes of its accumulator, pushes nothing and goes back to the top of its
\* loop, where the read is done again.
C11_TransientSwallowed ==
    [][ReadFails("transient") =>
          /\ r_pc' = "loop"
          /\ buf' = buf
          /\ pushed' = pushed
          /\ q' = q]_vars

\* C12: when a read fails fatally the reader goes directly to Stopped and
\* the step touches nothing of the consumer; once Stopped that way it stays
\* Stopped and nothing more is pushed; the consumer's later ticks drain
\* every item that was queued.
C12_FatalStopsReader ==
    /\ [][ReadFails("fatal") =>
            /\ ReaderStopped'
            /\ pushed' = pushed
            /\ q' = q
            /\ guiVars' = guiVars]_vars
    /\ [][(ReaderStopped /\ r_exc = "fatal") =>
            (r_pc' = r_pc /\ r_exc' = r_exc /\ pushed' = pushed)]_vars
    /\ (r_exc = "fatal") ~>
            /\ q = <<>>
            /\ serial_in = RawTextsOf(pushed)
            /\ handled = FramesOf(pushed)

\* C12 witness: the reader has ended on a fatal read failure with items
\* still queued, and the consumer is inside a tick draining them.
C12_Witness ==
    /\ r_pc = "crashed"
    /\ r_exc = "fatal"
    /\ Len(q) >= 2
    /\ g_pc = "pump"


\* ---- the parser claims (specification SpecParse)
\* The line starts with "P,".
HasMarker(text) == Len(text) >= 2 /\ SubSeq(text, 1, 2) = <<"P", ",">>

\* The token list as the claims define it: one trailing comma removed if
\* there is one, the rest split on ",", the leading marker token discarded.
StripOneComma(text) ==
    IF text # <<>> /\ text[Len(text)] = ","
    THEN SubSeq(text, 1, Len(text) - 1)
    ELSE text

SpecTokens(text) == Tail(Split(StripOneComma(text)))

\* The index of the first token D of a token list (0 when there is none).
FirstD(toks) ==
    IF \E i \in 1..Len(toks) : toks[i] = <<"D">>
    THEN CHOOSE d \in 1..Len(toks) :
             toks[d] = <<"D">> /\ \A j \in 1..(d - 1) : toks[j] # <<"D">>
    ELSE 0

\* The coordinate section: the tokens before the first D, or all of them.
CoordSection(toks) ==
    IF FirstD(toks) = 0 THEN toks ELSE SubSeq(toks, 1, FirstD(toks) - 1)

\* The extra section: the tokens after the first D, or none.
ExtraSection(toks) ==
    IF FirstD(toks) = 0 THEN <<>> ELSE SubSeq(toks, FirstD(toks) + 1, Len(toks))

AllConvert(toks) == \A i \in 1..Len(toks) : IsFloat(toks[i])

\* _parse has returned for the line r_txt.
Parsed == r_parsed # NotParsed

\* C13: exactly one trailing comma is stripped before the split, so the
\* empty tokens left by further trailing commas are kept: one in the
\* coordinate section fails conversion, those in the extra section are in
\* the frame's extra list.
C13_OneTrailingCommaStripped ==
    (Parsed /\ HasMarker(r_txt)) =>
        LET toks == SpecTokens(r_txt)
        IN  /\ (\E i \in 1..Len(CoordSection(toks)) : CoordSection(toks)[i] = <<>>)
                  => r_parsed.tag = "str"
            /\ r_parsed.tag = "PointFrame"
                  => r_parsed.frame.extra = ExtraSection(toks)

\* C14: the result is a PointFrame if and only if the line starts with "P,",
\* every token of its coordinate section converts to a float and the section
\* has at least 2 tokens; otherwise it is a str; a PointFrame has at least
\* one pair; a structured line whose section converts and has fewer than 2
\* tokens gives the 'no coordinate data' text.
C14_FrameIffCoordinates ==
    Parsed =>
        LET coord == CoordSection(SpecTokens(r_txt))
        IN  /\ r_parsed.tag \in {"str", "PointFrame"}
            /\ r_parsed.tag = "PointFrame" <=>
                  (HasMarker(r_txt) /\ AllConvert(coord) /\ Len(coord) >= 2)
            /\ r_parsed.tag = "PointFrame" => Len(r_parsed.frame.coords) >= 1
            /\ (HasMarker(r_txt) /\ AllConvert(coord) /\ Len(coord) < 2)
                  => r_parsed = Str(NoCoordMsg(r_txt))

\* C15: a frame's extra list is exactly the tokens after the first D, in
\* order and unconverted, later D tokens included, and its pairs are made of
\* the tokens before the first D; with no D the extra list is empty.
C15_SplitAtFirstD ==
    (Parsed /\ r_parsed.tag = "PointFrame") =>
        LET toks == SpecTokens(r_txt)
        IN  IF FirstD(toks) = 0
            THEN r_parsed.frame.extra = <<>>
            ELSE /\ r_parsed.frame.extra = ExtraSection(toks)
                 /\ Len(r_parsed.frame.coords) = Len(CoordSection(toks)) \div 2

\* C16: for a structured line whose coordinate section is n >= 2 convertible
\* tokens f1..fn the result is a PointFrame with exactly floor(n/2) pairs,
\* the k-th being (f(2k-1), f(2k)); an odd last float is dropped and nothing
\* but the line's own text is pushed as raw text.
C16_PairsInOrder ==
    (Parsed /\ HasMarker(r_txt)) =>
        LET coord == CoordSection(SpecTokens(r_txt))
            n     == Len(coord)
        IN  (n >= 2 /\ AllConvert(coord)) =>
                /\ r_parsed.tag = "PointFrame"
                /\ Len(r_parsed.frame.coords) = n \div 2
                /\ \A k \in 1..(n \div 2) :
                      r_parsed.frame.coords[k]
                          = <<FloatOf(coord[2 * k - 1]), FloatOf(coord[2 * k])>>
                /\ RawTextsOf(pushed) = <<r_txt>>

\* C16 witness: a line with three coordinate floats was parsed to one pair.
C16_Witness ==
    /\ Parsed
    /\ HasMarker(r_txt)
    /\ Len(CoordSection(SpecTokens(r_txt))) = 3
    /\ r_parsed.tag = "PointFrame"
    /\ Len(r_parsed.frame.coords) = 1

\* C17: for a line that does not start with "P," the result is the line
\* itself, and the consumer receives exactly that text, once, as a raw event
\* and nothing else.
C17_PlainLinePassedThrough ==
    (Parsed /\ ~HasMarker(r_txt)) =>
        /\ r_parsed = Str(r_txt)
        /\ pushed = <<RawItem(r_txt)>>
        /\ serial_in \o RawTextsOf(q) = <<r_txt>>
        /\ handled = <<>>

\* C17 witness: a non-empty line that begins with P but not with "P," was
\* received by the consumer.
C17_Witness ==
    /\ Parsed
    /\ ~HasMarker(r_txt)
    /\ r_txt # <<>>
    /\ r_txt[1] = "P"
    /\ serial_in = <<r_txt>>
    /\ q = <<>>

\* The bytes of the stream the reader has split off as lines: all that
\* arrived, less what waits at the port and what is in the accumulator.
Consumed == SubSeq(sent, 1, Len(sent) - Len(rx) - Len(buf))

\* The texts the reader has pushed as lines, with the one it is about to push.
LinesOut ==
    RawTextsOf(pushed) \o (IF r_pc = "put_raw" THEN <<r_txt>> ELSE <<>>)

\* C21: however the byte stream is cut into reads, the lines pushed are
\* the stream's newline-terminated segments, in stream order: the stream is
\* the segments split off, then the accumulator, then the bytes not yet
\* read; what was split off ends at a newline and its segments are the lines
\* pushed; outside the splitting loop the accumulator holds no newline, so
\* the bytes after the last newline stay there unpushed.
C21_FramingIgnoresChunks ==
    /\ Len(rx) + Len(buf) <= Len(sent)
    /\ sent = Consumed \o buf \o rx
    /\ Consumed # <<>> => Consumed[Len(Consumed)] = NL
    /\ LinesOut = StreamTexts(Consumed)
    /\ r_pc \in {"loop", "read", "done", "crashed"} => ~HasNL(buf)

\* C21 witness: one line was pushed, a read has ended in the middle of the
\* next line, whose first bytes are in the accumulator and whose other bytes
\* wait at the port.
C21_Witness ==
    /\ Len(RawTextsOf(pushed)) = 1
    /\ r_pc = "loop"
    /\ buf # <<>>
    /\ ~HasNL(buf)
    /\ HasNL(rx)

\* C22: once stop() has set the flag it stays set and the reader enters no
\* read any more, so the only read it still does is the one it was at when
\* the flag was set: at most one before its loop exits; and once the loop has
\* exited nothing is pushed: the queue keeps its items or loses its oldest one.
C22_AtMostOneReadAfterStop ==
    /\ [][stop_flag => stop_flag']_vars
    /\ [][(stop_flag /\ r_pc # "read") => r_pc' # "read"]_vars
    /\ [][(stop_flag /\ r_pc = "read" /\ r_pc' # r_pc) =>
            r_pc' \in {"split", "crashed"}]_vars
    /\ [][ReaderStopped =>
            /\ pushed' = pushed
            /\ (q' = q \/ (q # <<>> /\ q' = Tail(q)))]_vars

\* C22 witness: the flag was set while the reader was at a read, and a line
\* waits at the port for that one more read; an earlier line is still queued.
C22_Witness ==
    /\ stop_flag
    /\ g_pc = "join"
    /\ r_pc = "read"
    /\ HasNL(rx)
    /\ q # <<>>

\* C1: after any sequence of appends, every channel's value buffer is as
\* long as the timestamp buffer.
C1_ChannelLengthsEqual ==
    \A c \in DOMAIN ts_data : Len(ts_data[c]) = Len(ts_time)

\* C4: every buffer holds at most MAX entries, and after more than MAX
\* appends the timestamp buffer and every channel buffer hold exactly the
\* entries of the last MAX appends, in order.
C4_BoundedLastMax ==
    /\ Len(ts_time) <= MAX
    /\ \A c \in DOMAIN ts_data : Len(ts_data[c]) <= MAX
    /\ n_appends > MAX =>
          /\ Len(ts_time) = MAX
          /\ ts_time = ref_time
          /\ \A c \in DOMAIN ts_data :
                Len(ts_data[c]) = MAX /\ ts_data[c] = ref_data[c]

\* C9: a channel first seen after n > 0 samples holds NaN at the index of
\* every earlier sample and the frame's value at the last index; in every
\* channel the value at index i is the one of the frame whose timestamp is
\* at index i.
C9_ValuesAtTheirFrame ==
    /\ DOMAIN ts_data = DOMAIN ref_data
    /\ \A c \in DOMAIN ts_data :
          \A i \in 1..Len(ts_time) :
              i <= Len(ts_data[c]) /\ ts_data[c][i] = ref_data[c][i]

\* The newest entry of a non-empty list.
Newest(lst) == lst[Len(lst)]

\* C18: no append, trimming or not, removes a channel: every channel ever
\* created exists in every later state, and an append of a frame that has
\* no column for a channel puts one NaN at the end of that channel's buffer.
C18_ChannelsNeverRemoved ==
    /\ [][DOMAIN ts_data \subseteq DOMAIN ts_data']_vars
    /\ [](DOMAIN ts_data = DOMAIN ref_data)
    /\ [][n_appends' # n_appends =>
            \A c \in DOMAIN ts_data :
                c >= ref_cols' =>
                    /\ c \in DOMAIN ts_data'
                    /\ ts_data'[c] = LastN(Append(ts_data[c], NaN), MAX)]_vars

\* C18 witness: after more than MAX appends, the newest frame had one
\* column; the second channel, which once received a value, has NaN as its
\* newest entry.
C18_Witness ==
    /\ n_appends > MAX
    /\ ref_cols = 1
    /\ DOMAIN ts_data = {0, 1}
    /\ Newest(ts_data[1]) = NaN
    /\ \E i \in 1..Len(ts_data[1]) : ts_data[1][i] # NaN

\* C19: computing the window view again, with no append, selection change
\* or scale change since the last computation, gives the same start index,
\* timestamp slice and value slices (the curves stay as they are) and leaves
\* the timestamp buffer and every channel buffer unchanged; nor does any
\* other computation of the view without an append change a buffer.
C19_WindowIdempotent ==
    /\ [][recomputed' =>
            /\ ts_curves' = ts_curves
            /\ ts_time' = ts_time
            /\ ts_data' = ts_data]_vars
    /\ [][n_appends' = n_appends => (ts_time' = ts_time /\ ts_data' = ts_data)]_vars

\* C19 witness: the view was computed again for a store whose window starts
\* after the first sample, with a curve shown at scale 2.
C19_Witness ==
    /\ recomputed
    /\ ts_time # <<>>
    /\ WindowStart(ts_time) > 0
    /\ 0 \in DOMAIN ts_curves
    /\ ScaleOf(ts_scale, 0) = 2
    /\ ts_curves[0].x = From(ts_time, WindowStart(ts_time))

\* C20: a consumer tick never waits for the producer: inside _pump a step
\* of it is always possible, it returns only on seeing the queue empty, and
\* (the producer pushing finitely many items) every tick returns.
C20_PumpNeverBlocks ==
    /\ [](g_pc = "pump" => ENABLED Pump)
    /\ [][(g_pc = "pump" /\ g_pc' # "pump") => (q = <<>> /\ g_pc' = "idle")]_vars
    /\ (g_pc = "pump") ~> (g_pc = "idle")

\* C20 witness: inside a tick that has popped an item the queue is empty
\* while the reader is still running with bytes to read.
C20_Witness ==
    /\ g_pc = "pump"
    /\ q = <<>>
    /\ serial_in # <<>>
    /\ ~ReaderStopped
    /\ rx # <<>>

\* C10: for every non-empty store, whatever the order of its timestamps,
\* the window's start index i has timestamps[i] >= last - W and
\* (i = 0 or timestamps[i-1] < last - W).
C10_WindowStartBoundary ==
    ts_time # <<>> =>
        LET i  == WindowStart(ts_time)
            lo == ts_time[Len(ts_time)] - WindowMs
        IN  /\ i < Len(ts_time)
            /\ ts_time[i + 1] >= lo
            /\ (i = 0 \/ ts_time[i] < lo)

\* C10 witness: a store whose timestamps are out of order and whose window
\* starts after the first sample.
C10_Witness ==
    /\ Len(ts_time) = MAX
    /\ \E j \in 1..(Len(ts_time) - 1) : ts_time[j] > ts_time[j + 1]
    /\ WindowStart(ts_time) > 0

====
